---- MODULE Spec2Model ----
(***************************************************************************)
(* Model of the static site builder (builder.py) and of the development   *)
(* server with hot reloading (server.py).                                  *)
(*                                                                         *)
(* Threads of control: thread 0 is the main thread (the builder run as a   *)
(* script, or start_server with its synchronous initial build and the      *)
(* HTTP loop); threads 1..MaxWorkers are the rebuild threads spawned by    *)
(* FileChangeHandler.trigger_rebuild; the watchdog observer delivers       *)
(* events one at a time on its own thread.                                 *)
(*                                                                         *)
(* Texts are sequences of tokens.  A page is a sequence over PageTokens:   *)
(* "ws" is a run of whitespace, "T:<name>" a comment matching the TEMPLATE *)
(* directive pattern, "B:<token>" a comment matching the BACKGROUND        *)
(* pattern, "txt" any other text.  A template is a sequence over the three *)
(* marker literals and "html" (any other text).                            *)
(***************************************************************************)
EXTENDS Integers, Sequences, FiniteSets, TLC

\* ---------------------------------------------------------------- bounds
MaxWorkers == 2
MaxLen == 2
TicksPerSecond == 2
MaxTime == 5

\* ------------------------------------------------------ program constants
debounce_seconds == 1

Workers == 1..MaxWorkers
Threads == 0..MaxWorkers
DebounceTicks == debounce_seconds * TicksPerSecond

\* ------------------------------------------------------------ the sources
Stems == {"index", "about"}
\* pages/Index.html: a stem that differs from 'index' in case only
AllStems == Stems \cup {"Index"}
PageTokens == {"ws", "txt", "T:base", "T:nope", "B:img"}
TemplateText == <<"html", "<!-- TITLE -->", "<!-- BACKGROUND -->", "<!-- CONTENT -->">>
DataText == <<"css">>
GoodPage == <<"T:base", "B:img", "txt">>

IsTemplateTag(tok) == tok \in {"T:base", "T:nope"}
IsBackgroundTag(tok) == tok = "B:img"
TagValue(tok) ==
  CASE tok = "T:base" -> "base"
    [] tok = "T:nope" -> "nope"
    [] tok = "B:img" -> "img"
    [] OTHER -> "None"

RECURSIVE SkipWs(_)
SkipWs(s) == IF s # <<>> /\ Head(s) = "ws" THEN SkipWs(Tail(s)) ELSE s

PageTextsUpTo(n) == UNION {[1..k -> PageTokens] : k \in 0..n}

\* Templates over the marker literals and other text; pages that carry both
\* directives, followed by a body; a body may itself hold a marker literal.
TemplateTokens == {"html", "<!-- TITLE -->", "<!-- BACKGROUND -->", "<!-- CONTENT -->"}
TemplateTextsUpTo(n) == UNION {[1..k -> TemplateTokens] : k \in 0..n}
BodyTokens == {"txt", "<!-- TITLE -->"}
BodyTextsUpTo(n) == UNION {[1..k -> BodyTokens] : k \in 0..n}
DirectedPages(n) == {<<"T:base", "B:img">> \o body : body \in BodyTextsUpTo(n)}

\* --------------------------------------------------------- the build root
\* Paths are relative to the build root, as sequences of components.
DataFiles == {<<"style.css">>}
OutputDir(stem) == <<stem>>

\* the comparison of line 100 without lower()
Lower_identity(stem) == stem

\* page_name.lower(), line 100
Lower(stem) == IF stem = "Index" THEN "index" ELSE stem

OutputPath(stem) ==
  IF Lower(stem) = "index" THEN <<"index.html">> ELSE <<stem, "index.html">>

Children == {<<"index.html">>, <<"about">>, <<"style.css">>, <<"Index">>}
AllPaths == Children \cup {<<"about", "index.html">>, <<"Index", "index.html">>}
Parent(p) == SubSeq(p, 1, Len(p) - 1)

Absent == [k |-> "absent", c |-> <<>>]
Dir == [k |-> "dir", c |-> <<>>]
File(c) == [k |-> "file", c |-> c]

EmptyTree == [p \in AllPaths |-> Absent]
StaleTree == [p \in AllPaths |->
  IF p[1] = "Index" THEN Absent
  ELSE IF p = <<"about">> THEN Dir ELSE File(<<"old">>)]

VARIABLES
  templatesDir,   \* templates/ exists
  templates,      \* name n -> text of templates/n.html, for the files present
  dataDir,        \* data/ exists
  pagesDir,       \* pages/ exists
  pages,          \* stem -> text of pages/<stem>.html
  buildId,        \* identity of the build root directory, 0 when it is absent
  fs,             \* path under the build root -> Absent, Dir or File(text)
  b,              \* thread -> its run of StaticSiteBuilder.build
  mpc,            \* position of the main thread
  enable_hot_reload,
  skip_initial_build,
  observer,       \* "none", "created", "started", "stopped" or "joined"
  listener,       \* self.server: "none", "open" or "closed"
  outcome,        \* how the try of start_server was left: what it returns
  spc,            \* position of a thread that calls stop_server
  now,            \* the clock, in ticks
  last_rebuild,   \* FileChangeHandler.last_rebuild, in ticks
  lastEvent,      \* history: the event handled last
  triggers,       \* history: the values last_rebuild took, in order
  resp            \* history: the request handled last and what was sent for it

site == <<templatesDir, templates, dataDir, pagesDir, pages>>
tree == <<buildId, fs>>
serverVars == <<mpc, enable_hot_reload, skip_initial_build, observer, listener, outcome, spc>>
watchVars == <<now, last_rebuild, lastEvent, triggers>>
vars == <<site, tree, b, serverVars, watchVars, resp>>

\* ------------------------------------------------ one run of build()
\* pc: where the run is; todo: what the current loop has left to visit;
\* page: the page being processed and out: its computed text;
\* fd: "closed", "live" (the open output file is linked at its path) or
\* "orphan" (it was unlinked after it was opened);
\* history: ran (steps entered), wrote (stems whose output was written),
\* lost (stems whose write raised and was swallowed), raised (an exception
\* left a step and reached build()'s handler).
IdleRun == [pc |-> "idle", todo |-> {}, page |-> "None", out |-> <<>>,
            fd |-> "closed", result |-> "none", thread |-> "none",
            ran |-> {}, wrote |-> {}, lost |-> {}, raised |-> FALSE]

StartRun(thread) == [IdleRun EXCEPT !.pc = "build", !.thread = thread]

InFlight(t) == b[t].pc \notin {"idle", "done"}

\* build(), lines 144-146: any exception of a step ends the run with False.
Fail(r) == [r EXCEPT !.pc = "done", !.result = "fail", !.raised = TRUE,
                     !.todo = {}, !.page = "None", !.out = <<>>, !.fd = "closed"]

\* build(), lines 141-142
Succeed(r) == [r EXCEPT !.pc = "done", !.result = "ok",
                        !.todo = {}, !.page = "None", !.out = <<>>, !.fd = "closed"]

\* ----------------------------------------------------- builder.py: texts
\* re.match(r'^\s*<!--\s*TEMPLATE:\s*(\w+)\s*-->\s*\n?') and the re.sub of
\* the same anchored pattern: leading whitespace, the tag, and all
\* whitespace after it are removed.  Returns <<name, rest>>.
extract_template_tag(content) ==
  LET s == SkipWs(content) IN
  IF s # <<>> /\ IsTemplateTag(Head(s))
    THEN <<TagValue(Head(s)), SkipWs(Tail(s))>>
    ELSE <<"None", content>>

extract_background_tag(content) ==
  LET s == SkipWs(content) IN
  IF s # <<>> /\ IsBackgroundTag(Head(s))
    THEN <<TagValue(Head(s)), SkipWs(Tail(s))>>
    ELSE <<"None", content>>

\* str.replace(old, new, 1): the first occurrence only
RECURSIVE ReplaceFirst(_, _, _)
ReplaceFirst(s, old, new) ==
  IF s = <<>> THEN <<>>
  ELSE IF Head(s) = old THEN new \o Tail(s)
  ELSE <<Head(s)>> \o ReplaceFirst(Tail(s), old, new)

\* str.replace(old, new): every occurrence of old is replaced.
RECURSIVE Replace(_, _, _)
Replace(s, old, new) ==
  IF s = <<>> THEN <<>>
  ELSE (IF Head(s) = old THEN new ELSE <<Head(s)>>) \o Replace(Tail(s), old, new)

\* page_name.replace('-', ' ').capitalize(), then 'Index' -> 'Home'
Capitalize(stem) ==
  CASE stem = "index" -> "Index"
    [] stem = "Index" -> "Index"
    [] stem = "about" -> "About"
    [] OTHER -> stem

Title(stem) ==
  LET pretty_page_name == Capitalize(stem) IN
  IF pretty_page_name = "Index" THEN "Home" ELSE pretty_page_name

\* load_template, lines 66-68: the name resolves iff templates/<name>.html
\* exists
TemplateFound(template_name) == template_name \in DOMAIN templates

\* load_template, lines 70-71
load_template(template_name) == templates[template_name]

\* process_page, lines 92-98
FinalContent(stem, template_content, background, clean_content) ==
  Replace(Replace(Replace(template_content,
            "<!-- TITLE -->", <<Title(stem)>>),
            "<!-- BACKGROUND -->", <<background>>),
            "<!-- CONTENT -->", clean_content)

\* What process_page decides for a page text before it touches the build
\* root: "no_template_tag", "no_background_tag", "template_not_found" or
\* "compile".
PageVerdict(content) ==
  LET t == extract_template_tag(content)
      g == extract_background_tag(t[2]) IN
  IF t[1] = "None" THEN "no_template_tag"
  ELSE IF g[1] = "None" THEN "no_background_tag"
  ELSE IF ~TemplateFound(t[1]) THEN "template_not_found"
  ELSE "compile"

Compiled(stem, content) ==
  LET t == extract_template_tag(content)
      g == extract_background_tag(t[2]) IN
  FinalContent(stem, load_template(t[1]), g[1], g[2])

\* --------------------------------------------- builder.py: file system
IsUnder(p, d) == Len(p) > Len(d) /\ SubSeq(p, 1, Len(d)) = d

\* shutil.rmtree(item) / item.unlink(): item and all below it are gone
Removed(tree_, item) ==
  [p \in AllPaths |-> IF p = item \/ IsUnder(p, item) THEN Absent ELSE tree_[p]]

\* A thread holding an open output file under a removed path keeps writing
\* to a file that no path names any more.
Orphaned(runs, item) ==
  [t \in Threads |->
    IF runs[t].fd = "live"
       /\ (OutputPath(runs[t].page) = item \/ IsUnder(OutputPath(runs[t].page), item))
    THEN [runs[t] EXCEPT !.fd = "orphan"] ELSE runs[t]]

Listing(tree_) == {p \in Children : tree_[p] # Absent}

\* ------------------------------------------ builder.py: the steps of build()
\* build() without the check of lines 132-134
Build_unchecked(t) ==
  /\ b[t].pc = "build"
  /\ b' = [b EXCEPT ![t] = [b[t] EXCEPT !.pc = "clean"]]
  /\ UNCHANGED <<site, tree, serverVars, watchVars, resp>>

\* build(), lines 132-134: the precondition on templates/
Build(t) ==
  /\ b[t].pc = "build"
  /\ b' = [b EXCEPT ![t] =
       IF ~templatesDir
         THEN [b[t] EXCEPT !.pc = "done", !.result = "fail"]
         ELSE [b[t] EXCEPT !.pc = "clean"]]
  /\ UNCHANGED <<site, tree, serverVars, watchVars, resp>>

\* clean_build_dir as shutil.rmtree(build_dir) followed by mkdir()
clean_build_dir_recreate(t) ==
  /\ b' = [Orphaned(b, <<>>) EXCEPT ![t] =
             [b[t] EXCEPT !.ran = @ \cup {"clean"}, !.pc = "copy"]]
  /\ buildId' = buildId + 1
  /\ fs' = EmptyTree

\* clean_build_dir, lines 22-24 and 30-32: list the children of an existing
\* build root, or create the root.
clean_build_dir(t) ==
  IF buildId # 0
    THEN /\ b' = [b EXCEPT ![t] = [b[t] EXCEPT
                !.ran = @ \cup {"clean"},
                !.todo = Listing(fs),
                !.pc = IF Listing(fs) = {} THEN "copy" ELSE "cleaning"]]
         /\ UNCHANGED tree
    ELSE /\ b' = [b EXCEPT ![t] = [b[t] EXCEPT !.ran = @ \cup {"clean"}, !.pc = "copy"]]
         /\ buildId' = 1
         /\ UNCHANGED fs

CleanBuildDir(t) ==
  /\ b[t].pc = "clean"
  /\ clean_build_dir(t)
  /\ UNCHANGED <<site, serverVars, watchVars, resp>>

\* clean_build_dir, lines 24-28: one child.  is_dir() is False for a child
\* that is gone, and unlink() of it raises FileNotFoundError.
CleanItem(t) ==
  /\ b[t].pc = "cleaning"
  /\ \E item \in b[t].todo :
       LET rest == b[t].todo \ {item}
           next == [b[t] EXCEPT !.todo = rest,
                                !.pc = IF rest = {} THEN "copy" ELSE "cleaning"] IN
       IF fs[item] = Absent
         THEN /\ b' = [b EXCEPT ![t] = Fail(b[t])]
              /\ UNCHANGED fs
         ELSE /\ fs' = Removed(fs, item)
              /\ b' = [Orphaned(b, item) EXCEPT ![t] = next]
  /\ UNCHANGED <<site, buildId, serverVars, watchVars, resp>>

\* copy_data_files, lines 35-39
CopyDataFiles(t) ==
  /\ b[t].pc = "copy"
  /\ b' = [b EXCEPT ![t] =
       IF ~dataDir
         THEN [b[t] EXCEPT !.ran = @ \cup {"copy"}, !.pc = "pages"]
         ELSE [b[t] EXCEPT !.ran = @ \cup {"copy"}, !.pc = "copying", !.todo = DataFiles]]
  /\ UNCHANGED <<site, tree, serverVars, watchVars, resp>>

\* copy_data_files, lines 40-47: one file.  The parent of a top-level file
\* is the build root, which exists; copy2 onto a directory raises.
CopyItem(t) ==
  /\ b[t].pc = "copying"
  /\ \E item \in b[t].todo :
       LET rest == b[t].todo \ {item}
           next == [b[t] EXCEPT !.todo = rest,
                                !.pc = IF rest = {} THEN "pages" ELSE "copying"] IN
       IF fs[item] = Dir
         THEN /\ b' = [b EXCEPT ![t] = Fail(b[t])]
              /\ UNCHANGED fs
         ELSE /\ fs' = [fs EXCEPT ![item] = File(DataText)]
              /\ b' = [b EXCEPT ![t] = next]
  /\ UNCHANGED <<site, buildId, serverVars, watchVars, resp>>

\* build_pages, lines 117-124
BuildPages(t) ==
  /\ b[t].pc = "pages"
  /\ b' = [b EXCEPT ![t] =
       IF ~pagesDir \/ DOMAIN pages = {}
         THEN Succeed([b[t] EXCEPT !.ran = @ \cup {"pages"}])
         ELSE [b[t] EXCEPT !.ran = @ \cup {"pages"}, !.pc = "page", !.todo = DOMAIN pages]]
  /\ UNCHANGED <<site, tree, serverVars, watchVars, resp>>

\* build_pages, lines 126-127: on to the next page, or build() returns True
NextPage(r) ==
  IF r.todo = {} THEN Succeed(r)
  ELSE [r EXCEPT !.pc = "page", !.page = "None", !.out = <<>>, !.fd = "closed"]

\* process_page without the return of lines 85-87
process_page_no_background_check(r, page_path) ==
  LET picked == [r EXCEPT !.todo = @ \ {page_path}] IN
  IF \/ PageVerdict(pages[page_path]) \in {"no_template_tag", "template_not_found"}
     \/ ~TemplateFound(extract_template_tag(pages[page_path])[1])
    THEN NextPage(picked)
    ELSE [picked EXCEPT !.page = page_path,
                        !.out = Compiled(page_path, pages[page_path]),
                        !.pc = IF Lower(page_path) = "index" THEN "open" ELSE "mkdir"]

\* process_page with load_template called outside the try of line 89
process_page_raise(r, page_path) ==
  LET picked == [r EXCEPT !.todo = @ \ {page_path}] IN
  IF PageVerdict(pages[page_path]) = "template_not_found"
    THEN Fail(picked)
  ELSE IF PageVerdict(pages[page_path]) # "compile"
    THEN NextPage(picked)
    ELSE [picked EXCEPT !.page = page_path,
                        !.out = Compiled(page_path, pages[page_path]),
                        !.pc = IF Lower(page_path) = "index" THEN "open" ELSE "mkdir"]

\* process_page, lines 74-98 and 113-114: read the page, extract the tags,
\* load the template and substitute.  A missing tag returns; a missing
\* template raises FileNotFoundError, which the handler of line 113 swallows.
process_page(r, page_path) ==
  LET picked == [r EXCEPT !.todo = @ \ {page_path}] IN
  IF PageVerdict(pages[page_path]) # "compile"
    THEN NextPage(picked)
    ELSE [picked EXCEPT !.page = page_path,
                        !.out = Compiled(page_path, pages[page_path]),
                        !.pc = IF Lower(page_path) = "index" THEN "open" ELSE "mkdir"]

ProcessPage(t) ==
  /\ b[t].pc = "page"
  /\ \E page_path \in b[t].todo :
       b' = [b EXCEPT ![t] = process_page(b[t], page_path)]
  /\ UNCHANGED <<site, tree, serverVars, watchVars, resp>>

\* process_page, lines 104-105: page_folder.mkdir(exist_ok=True) raises
\* FileExistsError when the path is a file.
PageMkdir(t) ==
  /\ b[t].pc = "mkdir"
  /\ LET page_folder == OutputDir(b[t].page) IN
       IF fs[page_folder].k = "file"
         THEN /\ b' = [b EXCEPT ![t] = Fail(b[t])]
              /\ UNCHANGED fs
         ELSE /\ fs' = [fs EXCEPT ![page_folder] = Dir]
              /\ b' = [b EXCEPT ![t] = [b[t] EXCEPT !.pc = "open"]]
  /\ UNCHANGED <<site, buildId, serverVars, watchVars, resp>>

\* process_page, lines 108 and 113-114: open(output_path, 'w') creates or
\* truncates the file.  With the page folder gone it raises
\* FileNotFoundError, which the handler of line 113 swallows; on a directory
\* it raises IsADirectoryError, which leaves process_page.
open_output(t, output_path) ==
  IF Len(output_path) > 1 /\ fs[Parent(output_path)] = Absent
    THEN /\ b' = [b EXCEPT ![t] = NextPage([b[t] EXCEPT !.lost = @ \cup {b[t].page}])]
         /\ UNCHANGED fs
  ELSE IF fs[output_path] = Dir \/ (Len(output_path) > 1 /\ fs[Parent(output_path)] # Dir)
    THEN /\ b' = [b EXCEPT ![t] = Fail(b[t])]
         /\ UNCHANGED fs
  ELSE /\ fs' = [fs EXCEPT ![output_path] = File(<<>>)]
       /\ b' = [b EXCEPT ![t] = [b[t] EXCEPT !.pc = "write", !.fd = "live"]]

PageOpen(t) ==
  /\ b[t].pc = "open"
  /\ open_output(t, OutputPath(b[t].page))
  /\ UNCHANGED <<site, buildId, serverVars, watchVars, resp>>

\* process_page, lines 109-111: f.write(final_content) and the close.  The
\* text reaches the path only while the opened file is still linked there.
PageWrite(t) ==
  /\ b[t].pc = "write"
  /\ fs' = IF b[t].fd = "live"
             THEN [fs EXCEPT ![OutputPath(b[t].page)] = File(b[t].out)]
             ELSE fs
  /\ b' = [b EXCEPT ![t] = NextPage([b[t] EXCEPT !.wrote = @ \cup {b[t].page}])]
  /\ UNCHANGED <<site, buildId, serverVars, watchVars, resp>>

BuildStep(t) ==
  \/ Build(t)
  \/ CleanBuildDir(t)
  \/ CleanItem(t)
  \/ CopyDataFiles(t)
  \/ CopyItem(t)
  \/ BuildPages(t)
  \/ ProcessPage(t)
  \/ PageMkdir(t)
  \/ PageOpen(t)
  \/ PageWrite(t)

\* ------------------------------------ builder.py run as a script (148-151)
NoEvent == [seen |-> FALSE, parts |-> <<>>, suffix |-> "", is_directory |-> FALSE,
            at |-> 0, last |-> 0, accepted |-> FALSE]
NoResponse == [path |-> <<>>, cause |-> "none", sent |-> <<>>, escaped |-> FALSE,
               body |-> <<"none">>]

InitBuilder ==
  /\ templatesDir \in BOOLEAN
  /\ templates = [n \in {"base"} |-> TemplateText]
  /\ dataDir \in BOOLEAN
  /\ pagesDir \in BOOLEAN
  /\ pages \in UNION {[S -> PageTextsUpTo(MaxLen) \cup {GoodPage}] : S \in SUBSET Stems}
  /\ pagesDir \/ pages = <<>>
  /\ \/ buildId = 0 /\ fs = EmptyTree
     \/ buildId = 1 /\ fs = StaleTree
  /\ b = [t \in Threads |-> IF t = 0 THEN StartRun("main") ELSE IdleRun]
  /\ mpc = "script"
  /\ enable_hot_reload = FALSE
  /\ skip_initial_build = FALSE
  /\ observer = "none"
  /\ listener = "none"
  /\ outcome = "none"
  /\ spc = "idle"
  /\ now = 0
  /\ last_rebuild = 0
  /\ lastEvent = NoEvent
  /\ triggers = <<>>
  /\ resp = NoResponse

NextBuilder == BuildStep(0)

SpecBuilder == InitBuilder /\ [][NextBuilder]_vars

\* builder.py run as a script on sites whose pages all carry their
\* directives, over every template text and page body up to a length.
InitCompile ==
  /\ templatesDir = TRUE
  /\ templates \in [{"base"} -> TemplateTextsUpTo(MaxLen)]
  /\ dataDir \in BOOLEAN
  /\ pagesDir = TRUE
  /\ pages \in UNION {[S -> DirectedPages(MaxLen - 1)] :
                        S \in {T \in SUBSET AllStems : Cardinality(T) \in 1..2}}
  /\ \/ buildId = 0 /\ fs = EmptyTree
     \/ buildId = 1 /\ fs = StaleTree
  /\ b = [t \in Threads |-> IF t = 0 THEN StartRun("main") ELSE IdleRun]
  /\ mpc = "script"
  /\ enable_hot_reload = FALSE
  /\ skip_initial_build = FALSE
  /\ observer = "none"
  /\ listener = "none"
  /\ outcome = "none"
  /\ spc = "idle"
  /\ now = 0
  /\ last_rebuild = 0
  /\ lastEvent = NoEvent
  /\ triggers = <<>>
  /\ resp = NoResponse

SpecCompile == InitCompile /\ [][NextBuilder]_vars

\* ------------------------------------------- server.py: FileChangeHandler
relevant_extensions == {".html", ".css", ".js", ".py"}

\* Events of the watched directories pages/, templates/ and data/; parts
\* are the components of src_path below the project root.
Events == {
  [parts |-> <<"pages", "about.html">>, suffix |-> ".html", is_directory |-> FALSE],
  [parts |-> <<"data", "style.css">>, suffix |-> ".css", is_directory |-> FALSE],
  [parts |-> <<"data", "notes.txt">>, suffix |-> ".txt", is_directory |-> FALSE],
  [parts |-> <<"data", "build", "app.js">>, suffix |-> ".js", is_directory |-> FALSE],
  [parts |-> <<"pages", "drafts.html">>, suffix |-> ".html", is_directory |-> TRUE] }

HasPart(parts, name) == \E i \in 1..Len(parts) : parts[i] = name

\* should_rebuild, lines 49-63
should_rebuild(event, current_time) ==
  IF HasPart(event.parts, "build") THEN FALSE
  ELSE IF event.suffix \notin relevant_extensions THEN FALSE
  ELSE IF current_time - last_rebuild < DebounceTicks THEN FALSE
  ELSE TRUE

\* The observer delivers events on one thread: the next event is handled
\* only when the handler of the previous one has returned.
WatcherFree == \A t \in Threads : b[t].thread = "watcher" => ~InFlight(t)

\* serve_forever handles requests on the main thread, one at a time.
HttpFree == \A t \in Threads : b[t].thread = "main" => ~InFlight(t)

FreeWorker == CHOOSE w \in Workers :
  b[w].pc = "idle" /\ \A v \in Workers : b[v].pc = "idle" => w <= v

\* trigger_rebuild calling self.server.rebuild_site() itself
trigger_rebuild_inline(w, stamp) ==
  /\ last_rebuild' = stamp
  /\ triggers' = Append(triggers, stamp)
  /\ b' = [b EXCEPT ![w] = StartRun("watcher")]

\* trigger_rebuild, lines 77-84: stamp the time read now and start a
\* daemon thread that runs rebuild_site.
trigger_rebuild(w, stamp) ==
  /\ last_rebuild' = stamp
  /\ triggers' = Append(triggers, stamp)
  /\ b' = [b EXCEPT ![w] = StartRun("worker")]

\* history: the event, the clock reading of should_rebuild, the value of
\* last_rebuild it was compared with, and whether a trigger was emitted
Handled(event, accepted) ==
  [seen |-> TRUE, parts |-> event.parts, suffix |-> event.suffix,
   is_directory |-> event.is_directory, at |-> now, last |-> last_rebuild,
   accepted |-> accepted]

\* on_modified / on_created / on_deleted, lines 65-75.  should_rebuild and
\* trigger_rebuild read the clock one after the other: the second reading
\* is the first or later.
on_modified(event) ==
  /\ observer = "started"
  /\ WatcherFree
  /\ IF ~event.is_directory /\ should_rebuild(event, now)
       THEN /\ \E w \in Workers : b[w].pc = "idle"
            /\ \E stamp \in now..(IF now < MaxTime THEN now + 1 ELSE now) :
                 /\ trigger_rebuild(FreeWorker, stamp)
                 /\ now' = stamp
            /\ lastEvent' = Handled(event, TRUE)
       ELSE /\ lastEvent' = Handled(event, FALSE)
            /\ UNCHANGED <<now, last_rebuild, triggers, b>>

\* an event of a watched directory, the sources being as they were
OnEvent(event) ==
  /\ on_modified(event)
  /\ UNCHANGED <<site, tree, serverVars, resp>>

\* the text of pages/about.html after an edit
Edited(text) == IF text = GoodPage THEN GoodPage \o <<"txt">> ELSE GoodPage

\* pages/about.html is saved with a new text and the observer delivers the
\* modified event for it
SourceChanged ==
  /\ \E event \in Events :
       /\ event.parts = <<"pages", "about.html">>
       /\ on_modified(event)
  /\ pages' = [pages EXCEPT !["about"] = Edited(@)]
  /\ UNCHANGED <<templatesDir, templates, dataDir, pagesDir, tree, serverVars, resp>>

\* time passes while the observer runs
Tick ==
  /\ observer = "started"
  /\ now < MaxTime
  /\ now' = now + 1
  /\ UNCHANGED <<site, tree, b, serverVars, last_rebuild, lastEvent, triggers, resp>>

\* --------------------------------------------- server.py: StaticSiteServer
\* start_server going on to check_build_dir without waiting for the
\* initial build to return
StartServer_nowait ==
  /\ mpc = "start"
  /\ mpc' = "check"
  /\ b' = IF skip_initial_build THEN b ELSE [b EXCEPT ![0] = StartRun("main")]
  /\ UNCHANGED <<site, tree, enable_hot_reload, skip_initial_build, observer, listener, outcome, spc, watchVars, resp>>

\* start_server, lines 160-163: the initial build runs rebuild_site on the
\* calling thread.
StartServer ==
  /\ mpc = "start"
  /\ IF skip_initial_build
       THEN mpc' = "check" /\ UNCHANGED b
       ELSE mpc' = "initial_build" /\ b' = [b EXCEPT ![0] = StartRun("main")]
  /\ UNCHANGED <<site, tree, enable_hot_reload, skip_initial_build, observer, listener, outcome, spc, watchVars, resp>>

\* rebuild_site, lines 118-128, returning to start_server
InitialBuildReturns ==
  /\ mpc = "initial_build"
  /\ b[0].pc = "done"
  /\ mpc' = "check"
  /\ UNCHANGED <<site, tree, b, enable_hot_reload, skip_initial_build, observer, listener, outcome, spc, watchVars, resp>>

\* check_build_dir, lines 97-112, and start_server, lines 165-166
check_build_dir == buildId # 0

CheckBuildDir ==
  /\ mpc = "check"
  /\ mpc' = IF check_build_dir THEN "setup" ELSE "returned_false"
  /\ UNCHANGED <<site, tree, b, enable_hot_reload, skip_initial_build, observer, listener, outcome, spc, watchVars, resp>>

\* setup_hot_reload, lines 130-151: the observer is created, the watched
\* directories are scheduled and it is started; an exception at any of the
\* three disables hot reload and leaves the observer as far as it got.
SetupHotReload ==
  /\ mpc = "setup"
  /\ mpc' = "bind"
  /\ IF ~enable_hot_reload
       THEN UNCHANGED <<enable_hot_reload, observer>>
       ELSE \/ observer' = "started" /\ UNCHANGED enable_hot_reload
            \/ observer' \in {"none", "created"} /\ enable_hot_reload' = FALSE
  /\ UNCHANGED <<site, tree, b, skip_initial_build, listener, outcome, spc, watchVars, resp>>

\* start_server, lines 175-185: the listener is bound and serve_forever runs
Bind ==
  /\ mpc = "bind"
  /\ mpc' = "serving"
  /\ listener' = "open"
  /\ UNCHANGED <<site, tree, b, enable_hot_reload, skip_initial_build, observer, outcome, spc, watchVars, resp>>

\* start_server, lines 175 and 190-196: HTTPServer() raises OSError (the
\* port is in use); self.server stays None and start_server will return
\* False.
BindFails ==
  /\ mpc = "bind"
  /\ mpc' = "finally"
  /\ outcome' = "False"
  /\ UNCHANGED <<site, tree, b, enable_hot_reload, skip_initial_build, observer, listener, spc, watchVars, resp>>

\* start_server, lines 187-199: serve_forever is left by KeyboardInterrupt
\* (return True) or by another exception (return False).
Interrupt ==
  /\ mpc = "serving"
  /\ HttpFree
  /\ mpc' = "finally"
  /\ outcome' \in {"True", "False"}
  /\ UNCHANGED <<site, tree, b, enable_hot_reload, skip_initial_build, observer, listener, spc, watchVars, resp>>

\* cleanup_hot_reload, lines 154-155: file_observer.stop() when there is an
\* observer.  stop() ends the delivery of events; on an observer that was
\* never started it changes nothing.
observer_stop == IF observer = "started" THEN "stopped" ELSE observer

\* cleanup_hot_reload, line 156: file_observer.join().  Thread.join() of a
\* thread that was never started raises RuntimeError.
join_raises == observer = "created"
observer_join == IF observer = "stopped" THEN "joined" ELSE observer

\* start_server, line 201, first half
FinallyStop ==
  /\ mpc = "finally"
  /\ observer' = observer_stop
  /\ mpc' = IF observer = "none" THEN "finally_close" ELSE "finally_join"
  /\ UNCHANGED <<site, tree, b, enable_hot_reload, skip_initial_build, listener, outcome, spc, watchVars, resp>>

\* start_server, line 201, second half: an exception of join() leaves the
\* finally block and start_server, and lines 202-204 do not run.
FinallyJoin ==
  /\ mpc = "finally_join"
  /\ observer # "started"
  /\ IF join_raises
       THEN mpc' = "raised" /\ UNCHANGED observer
       ELSE mpc' = "finally_close" /\ observer' = observer_join
  /\ UNCHANGED <<site, tree, b, enable_hot_reload, skip_initial_build, listener, outcome, spc, watchVars, resp>>

\* start_server, lines 202-204: server_close() when the listener was bound,
\* then the return of the handler that was taken (None when serve_forever
\* returned by itself).
FinallyClose ==
  /\ mpc = "finally_close"
  /\ listener' = IF listener = "none" THEN "none" ELSE "closed"
  /\ mpc' = CASE outcome = "True" -> "returned_true"
             [] outcome = "False" -> "returned_false"
             [] OTHER -> "returned_none"
  /\ UNCHANGED <<site, tree, b, enable_hot_reload, skip_initial_build, observer, outcome, spc, watchVars, resp>>

\* stop_server, lines 207-208, called on another thread while the server
\* serves: shutdown() returns when serve_forever has returned.
StopShutdown ==
  /\ spc = "idle"
  /\ mpc = "serving"
  /\ HttpFree
  /\ mpc' = "finally"
  /\ outcome' = "None"
  /\ spc' = "close"
  /\ UNCHANGED <<site, tree, b, enable_hot_reload, skip_initial_build, observer, listener, watchVars, resp>>

\* stop_server, line 209
StopClose ==
  /\ spc = "close"
  /\ listener' = "closed"
  /\ spc' = "cleanup"
  /\ UNCHANGED <<site, tree, b, mpc, enable_hot_reload, skip_initial_build, observer, outcome, watchVars, resp>>

\* stop_server, line 211: cleanup_hot_reload, lines 154-155
StopCleanupStop ==
  /\ spc = "cleanup"
  /\ observer' = observer_stop
  /\ spc' = IF observer = "none" THEN "done" ELSE "join"
  /\ UNCHANGED <<site, tree, b, mpc, enable_hot_reload, skip_initial_build, listener, outcome, watchVars, resp>>

\* stop_server, line 211: cleanup_hot_reload, line 156
StopCleanupJoin ==
  /\ spc = "join"
  /\ observer # "started"
  /\ IF join_raises
       THEN spc' = "raised" /\ UNCHANGED observer
       ELSE spc' = "done" /\ observer' = observer_join
  /\ UNCHANGED <<site, tree, b, mpc, enable_hot_reload, skip_initial_build, listener, outcome, watchVars, resp>>

Shutdown ==
  \/ BindFails
  \/ Interrupt
  \/ FinallyStop
  \/ FinallyJoin
  \/ FinallyClose
  \/ StopShutdown
  \/ StopClose
  \/ StopCleanupStop
  \/ StopCleanupJoin

\* ------------------------------------- server.py: QuietHTTPRequestHandler
\* Request paths, relative to the build root the server has as its
\* working directory; <<"about">> is the request for /about/.
Requests == {<<"index.html">>, <<"about">>}
Faults == {"none", "open", "stat", "read", "pipe"}

\* The file a request resolves to: a directory resolves to its index.html.
Target(path) == IF fs[path] = Dir THEN path \o <<"index.html">> ELSE path

\* Why the request's file cannot be read, or "none".
Cause(path, fault) ==
  IF fs[Target(path)].k # "file" THEN "missing" ELSE fault

\* SimpleHTTPRequestHandler.do_GET as called at line 26 (http.server of the
\* standard library): send_head answers a file that is missing, or that
\* open() refuses, with send_error(404) itself, and a directory without
\* index.html with a 200 listing; it sends 200 before the body is copied.
\* Only a failure after a successful open (fstat, reading the body, writing
\* to the client) leaves it as an exception.  Returns <<statuses, raised>>.
super_do_GET(path, fault) ==
  IF fs[path] = Dir /\ fs[Target(path)].k # "file" THEN <<(<<200>>), "none">>
  ELSE IF fs[Target(path)].k # "file" \/ fault = "open" THEN <<(<<404>>), "none">>
  ELSE IF fault = "stat" THEN <<(<<>>), "OSError">>
  ELSE IF fault = "read" THEN <<(<<200>>), "OSError">>
  ELSE IF fault = "pipe" THEN <<(<<200>>), "BrokenPipeError">>
  ELSE <<(<<200>>), "none">>

\* The file text a request is answered with: what the file holds when it
\* is copied to the client (copyfile of SimpleHTTPRequestHandler.do_GET), or
\* <<"none">> when no file is copied in full.
Body(path, fault) ==
  IF super_do_GET(path, fault) = <<(<<200>>), "none">> /\ fs[Target(path)].k = "file"
    THEN <<"file", fs[Target(path)].c>>
    ELSE <<"none">>

\* do_GET, lines 24-40: an OSError leaving the inherited handler is answered
\* with 503; writing that answer to a closed connection raises again.
do_GET(path, fault) ==
  LET r == super_do_GET(path, fault) IN
  IF r[2] = "none" THEN [path |-> path, cause |-> Cause(path, fault),
                         sent |-> r[1], escaped |-> FALSE, body |-> Body(path, fault)]
  ELSE IF r[2] = "BrokenPipeError"
    THEN [path |-> path, cause |-> Cause(path, fault), sent |-> r[1], escaped |-> TRUE,
          body |-> <<"none">>]
  ELSE [path |-> path, cause |-> Cause(path, fault),
        sent |-> Append(r[1], 503), escaped |-> FALSE, body |-> <<"none">>]

DoGET(path, fault) ==
  /\ mpc = "serving"
  /\ HttpFree
  /\ resp' = do_GET(path, fault)
  /\ UNCHANGED <<site, tree, b, serverVars, watchVars>>

\* ------------------------------------------------------ the server at work
Init ==
  /\ templatesDir \in BOOLEAN
  /\ templates = [n \in {"base"} |-> TemplateText]
  /\ dataDir = TRUE
  /\ pagesDir = TRUE
  /\ pages = [stem \in Stems |-> GoodPage]
  /\ \/ buildId = 0 /\ fs = EmptyTree
     \/ buildId = 1 /\ fs = StaleTree
  /\ b = [t \in Threads |-> IdleRun]
  /\ mpc = "start"
  /\ enable_hot_reload \in BOOLEAN
  /\ skip_initial_build \in BOOLEAN
  /\ observer = "none"
  /\ listener = "none"
  /\ outcome = "none"
  /\ spc = "idle"
  /\ now = DebounceTicks
  /\ last_rebuild = 0
  /\ lastEvent = NoEvent
  /\ triggers = <<>>
  /\ resp = NoResponse

Serve ==
  \/ StartServer
  \/ InitialBuildReturns
  \/ CheckBuildDir
  \/ SetupHotReload
  \/ Bind

Next ==
  \/ Serve
  \/ Tick
  \/ \E event \in Events : OnEvent(event)
  \/ \E t \in Threads : BuildStep(t)

Spec == Init /\ [][Next]_vars

\* The server with its requests: one site, one kind of change.
InitServe ==
  /\ Init
  /\ templatesDir
  /\ buildId = 1
  /\ enable_hot_reload
  /\ ~skip_initial_build

ChangeEvents == {e \in Events : e.parts = <<"pages", "about.html">>}

NextServe ==
  \/ Serve
  \/ Tick
  \/ \E event \in ChangeEvents : OnEvent(event)
  \/ \E t \in Threads : BuildStep(t)
  \/ \E path \in Requests, fault \in Faults : DoGET(path, fault)

SpecServe == InitServe /\ [][NextServe]_vars

\* The server from start to shutdown: one site, one kind of change.
InitStop ==
  /\ Init
  /\ templatesDir
  /\ buildId = 1
  /\ ~skip_initial_build

NextStop ==
  \/ Serve
  \/ Shutdown
  \/ Tick
  \/ \E event \in ChangeEvents : OnEvent(event)
  \/ \E t \in Threads : BuildStep(t)

SpecStop == InitStop /\ [][NextStop]_vars

\* The server with its sources edited in one burst while it runs: the
\* edits follow each other within the debounce interval (the clock moves
\* only between the two readings of on_modified).  Every thread that has a
\* step to take takes it; the edits are the environment's and may stop.
NextLive ==
  \/ Serve
  \/ SourceChanged
  \/ \E t \in Threads : BuildStep(t)

SpecLive ==
  /\ InitServe
  /\ [][NextLive]_vars
  /\ WF_vars(Serve)
  /\ \A t \in Threads : WF_vars(BuildStep(t))

\* ------------------------------------------------------------- the claims
\* The build root is the directory build/ of the project root.
InsideBuildRoot(parts) == parts # <<>> /\ parts[1] = "build"

Relevant(event) ==
  /\ ~event.is_directory
  /\ event.suffix \in relevant_extensions
  /\ ~InsideBuildRoot(event.parts)

Spaced == \A i, j \in 1..Len(triggers) : i < j => triggers[j] - triggers[i] >= DebounceTicks

\* C1: of the relevant events (a file, an accepted extension, a path outside
\* the build root) exactly those arriving at least the debounce interval
\* after the stamp of the last accepted event emit a rebuild trigger, so a
\* burst within the interval emits one trigger, for its first event.
C1_OneTriggerPerBurst ==
  /\ Spaced
  /\ (lastEvent.seen /\ Relevant(lastEvent)) =>
       (lastEvent.accepted <=> lastEvent.at - lastEvent.last >= DebounceTicks)

\* The debounce alone: for the events that pass the path and extension
\* tests of should_rebuild, the statement of C1 holds.
DebounceExact ==
  /\ Spaced
  /\ (lastEvent.seen /\ Relevant(lastEvent) /\ ~HasPart(lastEvent.parts, "build")) =>
       (lastEvent.accepted <=> lastEvent.at - lastEvent.last >= DebounceTicks)

Running == {t \in Threads : InFlight(t)}

\* C2: at most one run of build() is in flight at any time.
C2_OneBuildInFlight == Cardinality(Running) <= 1

\* C3: a trigger accepted while a rebuild is in flight starts no rebuild;
\* a rebuild starts only when none is in flight.
C3_FollowUpAfterCompletion ==
  [][\A w \in Workers :
       (b[w].pc = "idle" /\ b'[w].pc # "idle") => Running = {}]_vars

\* C4: a GET whose file cannot be read (it is missing, or opening or reading
\* it raises) is answered with 503 and nothing else, and no exception leaves
\* do_GET.
C4_Unreadable503 ==
  resp.cause \in {"missing", "open", "stat", "read"} =>
    (resp.sent = <<503>> /\ ~resp.escaped)

\* C5: once the build root exists it keeps its identity in every later
\* state, whatever builds run and however they interleave.
C5_BuildRootKept == [][buildId # 0 => buildId' = buildId]_vars

\* two rebuilds have cleaned an existing build root, one after or during
\* the other
C5_Cleaned ==
  /\ buildId # 0
  /\ \E t, u \in Workers : t # u /\ "copy" \in b[t].ran /\ "clean" \in b[u].ran

\* C6: with templates/ missing when build() starts, the run returns failure
\* in that step, no step of clean, copy or compile runs, and the build root
\* and its contents are as before.
C6_MissingTemplatesNoTouch ==
  [][\A t \in Threads :
       (b[t].pc = "build" /\ b'[t] # b[t] /\ ~templatesDir) =>
         /\ b'[t].pc = "done"
         /\ b'[t].result = "fail"
         /\ b'[t].ran = {}
         /\ fs' = fs
         /\ buildId' = buildId]_vars

C6_FailedUntouched ==
  /\ ~templatesDir
  /\ b[0].pc = "done"
  /\ b[0].result = "fail"
  /\ fs = StaleTree

\* The page starts with the TEMPLATE directive followed by the BACKGROUND
\* directive, whitespace apart.
HasTemplateDirective(content) ==
  \E i \in 1..Len(content) :
    /\ IsTemplateTag(content[i])
    /\ \A k \in 1..(i - 1) : content[k] = "ws"

HasDirectives(content) ==
  \E i, j \in 1..Len(content) :
    /\ i < j
    /\ IsTemplateTag(content[i])
    /\ IsBackgroundTag(content[j])
    /\ \A k \in 1..(j - 1) : k # i => content[k] = "ws"

TemplateNamed(content) == TagValue(Head(SkipWs(content)))

\* once the clean step is over, nothing is at the page's output path
NoOutput(stem) ==
  /\ stem \notin b[0].wrote
  /\ "copy" \in b[0].ran =>
       /\ fs[OutputPath(stem)] = Absent
       /\ stem # "index" => fs[OutputDir(stem)] = Absent

Returned == b[0].pc = "done" /\ templatesDir

\* C7: a page without the TEMPLATE or the BACKGROUND directive at its start
\* gets no file and no directory under the build root, and the run still
\* returns success.
C7_MissingDirectiveSkipped ==
  \A stem \in DOMAIN pages :
    ~HasDirectives(pages[stem]) =>
      /\ NoOutput(stem)
      /\ Returned => b[0].result = "ok"

C7_SkippedAndDone ==
  /\ Returned
  /\ b[0].result = "ok"
  /\ \E stem \in DOMAIN pages :
       HasTemplateDirective(pages[stem]) /\ ~HasDirectives(pages[stem])
  /\ b[0].wrote # {}

\* C8: a page naming a template that templates/ does not hold gets no
\* output; the run goes on, every other page that has its directives and
\* an existing template is written with its compiled text, in whatever order
\* the pages are visited, and the run returns success.
C8_MissingTemplateSkipped ==
  \A bad \in DOMAIN pages :
    (HasDirectives(pages[bad]) /\ TemplateNamed(pages[bad]) \notin DOMAIN templates) =>
      /\ NoOutput(bad)
      /\ Returned =>
           /\ b[0].result = "ok"
           /\ \A q \in DOMAIN pages \ {bad} :
                (HasDirectives(pages[q]) /\ TemplateNamed(pages[q]) \in DOMAIN templates) =>
                  fs[OutputPath(q)] = File(Compiled(q, pages[q]))

C8_OtherPageWritten ==
  /\ Returned
  /\ \E bad, q \in DOMAIN pages :
       /\ HasDirectives(pages[bad]) /\ TemplateNamed(pages[bad]) \notin DOMAIN templates
       /\ q \in b[0].wrote

\* C9: build() returns success exactly when templates/ exists and no file
\* system operation of clean, copy or compile failed.
C9_SuccessIffNoFailure ==
  \A t \in Threads :
    b[t].pc = "done" =>
      (b[t].result = "ok" <=> (templatesDir /\ ~b[t].raised /\ b[t].lost = {}))

\* C10: every rebuild a trigger starts runs on a thread of its own, neither
\* the observer's nor the one serving HTTP; the observer's thread is free
\* for the next event and, while the server serves, a request can be
\* handled, whatever rebuilds are in progress.
C10_RebuildOnOwnThread ==
  /\ \A w \in Workers : b[w].pc # "idle" => b[w].thread = "worker"
  /\ WatcherFree
  /\ mpc = "serving" => (HttpFree /\ ENABLED DoGET(<<"index.html">>, "none"))

\* a request found index.html cleaned away while a rebuild was running and
\* was answered
C10_ServedDuringRebuild ==
  /\ Running # {}
  /\ resp.path = <<"index.html">>
  /\ resp.cause = "missing"
  /\ resp.sent # <<>>

Quiesced == observer \in {"none", "created", "joined"}

\* C11: on every shutdown path (an interrupt or error leaving start_server,
\* and a call of stop_server) the listener is closed only when the watcher
\* has been stopped and joined, and once the watcher has been stopped no
\* rebuild trigger is emitted.
C11_WatcherStoppedBeforeClose ==
  /\ [][(listener # "closed" /\ listener' = "closed") => Quiesced]_vars
  /\ [][(observer \in {"stopped", "joined"}) => (triggers' = triggers)]_vars

\* C12: a failure of setup_hot_reload disables hot reload, the listener is
\* still bound, and nothing raises afterwards, the teardown of the watcher
\* at shutdown included.
C12_SetupFailureHarmless ==
  /\ mpc = "bind" => ENABLED Bind
  /\ observer = "created" => (~enable_hot_reload /\ mpc # "raised" /\ spc # "raised")

\* C13: an event whose path lies inside the build root never emits a
\* trigger, and the build-root filter rejects nothing else: a file event
\* with an accepted extension, outside the build root and outside the
\* debounce window, emits a trigger.
C13_BuildRootFilterExact ==
  lastEvent.seen =>
    /\ InsideBuildRoot(lastEvent.parts) => ~lastEvent.accepted
    /\ (Relevant(lastEvent) /\ lastEvent.at - lastEvent.last >= DebounceTicks) =>
         lastEvent.accepted

Markers == {"<!-- TITLE -->", "<!-- BACKGROUND -->", "<!-- CONTENT -->"}

\* the background token and the body of a page that carries its directives
BackgroundOf(content) == extract_background_tag(extract_template_tag(content)[2])[1]
BodyOf(content) == extract_background_tag(extract_template_tag(content)[2])[2]

TitleOf(stem) == IF stem \in {"index", "Index"} THEN "Home" ELSE "About"

\* the template with the first occurrence of each marker substituted
FirstOnly(stem, template) ==
  ReplaceFirst(ReplaceFirst(ReplaceFirst(template,
      "<!-- TITLE -->", <<TitleOf(stem)>>),
      "<!-- BACKGROUND -->", <<BackgroundOf(pages[stem])>>),
      "<!-- CONTENT -->", BodyOf(pages[stem]))

\* the template with every marker token substituted, in one pass
RECURSIVE Substituted(_, _)
Substituted(stem, template) ==
  IF template = <<>> THEN <<>>
  ELSE (CASE Head(template) = "<!-- TITLE -->" -> <<TitleOf(stem)>>
          [] Head(template) = "<!-- BACKGROUND -->" -> <<BackgroundOf(pages[stem])>>
          [] Head(template) = "<!-- CONTENT -->" -> BodyOf(pages[stem])
          [] OTHER -> <<Head(template)>>)
       \o Substituted(stem, Tail(template))

ExpectedPath(stem) ==
  IF stem \in {"index", "Index"} THEN <<"index.html">> ELSE <<stem, "index.html">>

\* C16: a compiled page is written to index.html of the build root when
\* its stem is 'index' in any case, to <stem>/index.html otherwise, and a
\* build writes a page file nowhere else.
C16_OutputPathRule ==
  /\ [][\A p \in AllPaths \ DataFiles :
          (fs'[p].k = "file" /\ fs'[p] # fs[p]) =>
            (b[0].page \in DOMAIN pages /\ p = ExpectedPath(b[0].page))]_vars
  /\ [][(b[0].pc = "write" /\ b'[0].pc # "write") =>
          fs'[ExpectedPath(b[0].page)] = File(b[0].out)]_vars

\* pages/Index.html and another page were compiled and written
C16_IndexAnyCaseWritten ==
  /\ b[0].pc = "done"
  /\ "Index" \in b[0].wrote
  /\ fs[<<"index.html">>] = File(Substituted("Index", templates["base"]))
  /\ "about" \in b[0].wrote
  /\ fs[<<"about", "index.html">>].k = "file"

\* the page a request path is the output of
StemOf(path) == IF path = <<"index.html">> THEN "index" ELSE "about"

\* C15: a reader of a compiled page never sees it partially written: a
\* request answered with the file gets the complete previous text or the
\* complete new text, never an empty or truncated one.
C15_NoPartialPage ==
  resp.body[1] = "file" =>
    resp.body[2] \in {<<"old">>, Compiled(StemOf(resp.path), pages[StemOf(resp.path)])}

\* C17: an initial build that is not skipped has returned before the
\* watcher is started and before the listener is bound, so it overlaps no
\* triggered rebuild and no request is served before it; and when the build
\* root does not exist after that step, start_server returns False with no
\* watcher started and no listener bound.
C17_InitialBuildFirst ==
  /\ [](/\ InFlight(0) =>
            /\ observer = "none" /\ listener = "none"
            /\ \A w \in Workers : b[w].pc = "idle"
            /\ \A path \in Requests : ~ENABLED DoGET(path, "none")
        /\ (~skip_initial_build /\ (observer # "none" \/ listener # "none")) =>
            b[0].pc = "done"
        /\ (mpc = "returned_false" /\ outcome = "none") =>
            (buildId = 0 /\ observer = "none" /\ listener = "none"))
  /\ [][(mpc = "check" /\ mpc' # "check" /\ buildId = 0) => mpc' = "returned_false"]_vars

\* the initial build has returned, the server serves and a triggered
\* rebuild is running
C17_ServingAfterInitialBuild ==
  /\ ~skip_initial_build
  /\ b[0].pc = "done"
  /\ listener = "open"
  /\ observer = "started"
  /\ \E w \in Workers : InFlight(w)

\* what one build of the sources leaves in the build root
SequentialTree == [p \in AllPaths |->
  CASE p \in DataFiles -> File(DataText)
    [] p = <<"index.html">> -> File(Compiled("index", pages["index"]))
    [] p = <<"about">> -> Dir
    [] p = <<"about", "index.html">> -> File(Compiled("about", pages["about"]))
    [] OTHER -> Absent]

\* C18: once all the rebuild workers that ran on unchanged sources have
\* terminated, the build root holds what one sequential build produces,
\* and no worker returned success for a run in which a page write failed.
C18_OverlapConverges ==
  (templatesDir /\ Running = {} /\ \E w \in Workers : b[w].pc = "done") =>
    /\ fs = SequentialTree
    /\ \A w \in Workers : b[w].result = "ok" => b[w].lost = {}

\* C20: every request gets exactly one response; the 503 status line is
\* sent only when no status line was sent for the request before.
C20_OneResponse ==
  resp.path # <<>> =>
    /\ Len(resp.sent) <= 1
    /\ ~resp.escaped => Len(resp.sent) = 1

\* the output of pages/about.html is not the compilation of its text
Stale == fs[<<"about", "index.html">>] # File(Compiled("about", pages["about"]))

\* C19: no source change is lost: after a change of a watched file, the
\* one dropped inside the debounce window included, a build that reads the
\* sources after the change runs, so the output comes to reflect them (or
\* a later trigger is emitted).
C19_NoChangeLost ==
  \A n \in 0..MaxWorkers :
    (lastEvent.seen /\ ~lastEvent.accepted /\ Stale /\ Len(triggers) = n)
      ~> (~Stale \/ Len(triggers) > n)

====
